---- MODULE Spec2Model ----
(***************************************************************************)
(* A model of the A/B-testing statistics engine                            *)
(* (src/src/utils/statistics.ts, StatisticsCalculator) and of the React    *)
(* hook that drives it (src/src/hooks/useABTesting.ts, useABTesting).      *)
(*                                                                         *)
(* JavaScript numbers are IEEE-754 doubles.  They are modelled by decimal  *)
(* floating-point values with a six-digit mantissa, round-to-nearest, and  *)
(* the IEEE special values NaN, +Infinity and -Infinity:                   *)
(*     [k |-> "fin", m |-> mantissa, e |-> exponent]   = m * 10^e          *)
(*     [k |-> "inf", m |-> 1 or -1,  e |-> 0]                              *)
(*     [k |-> "nan", m |-> 0,        e |-> 0]                              *)
(* A finite value is kept normalised (m = 0 and e = 0, or                  *)
(* 10^5 <= |m| < 10^6), so that equality of records is equality of values. *)
(* Zero is unsigned: x / 0 takes the sign of x.                            *)
(***************************************************************************)
EXTENDS Integers, Sequences, FiniteSets, TLC

----------------------------------------------------------------------------
(* Number representation                                                   *)

MantLo == 10^5
MantHi == 10^6
Split == 10^3

NaN == [k |-> "nan", m |-> 0, e |-> 0]
PosInf == [k |-> "inf", m |-> 1, e |-> 0]
NegInf == [k |-> "inf", m |-> -1, e |-> 0]
Zero == [k |-> "fin", m |-> 0, e |-> 0]

IAbs(i) == IF i < 0 THEN -i ELSE i
ISign(i) == IF i < 0 THEN -1 ELSE IF i > 0 THEN 1 ELSE 0

Pow10(n) == 10^n

\* Number of decimal digits of a, for 1 <= a < 2^31.
NumDigits(a) ==
    IF a < 10 THEN 1 ELSE IF a < 100 THEN 2 ELSE IF a < 1000 THEN 3
    ELSE IF a < 10000 THEN 4 ELSE IF a < 100000 THEN 5
    ELSE IF a < 1000000 THEN 6 ELSE IF a < 10000000 THEN 7
    ELSE IF a < 100000000 THEN 8 ELSE IF a < 1000000000 THEN 9 ELSE 10

\* The double nearest to m * 10^e: the mantissa is rounded to six digits,
\* ties away from zero.
Norm(m, e) ==
    IF m = 0 THEN Zero
    ELSE LET a == IAbs(m)
             d == NumDigits(a)
         IN IF d <= 6
            THEN [k |-> "fin", m |-> ISign(m) * a * Pow10(6 - d), e |-> e - (6 - d)]
            ELSE LET p == Pow10(d - 6)
                     q == (a \div p) + (IF 2 * (a % p) >= p THEN 1 ELSE 0)
                 IN IF q = MantHi
                    THEN [k |-> "fin", m |-> ISign(m) * MantLo, e |-> e + (d - 6) + 1]
                    ELSE [k |-> "fin", m |-> ISign(m) * q, e |-> e + (d - 6)]

\* A numeric literal m * 10^e, and an integer as a number.
F(m, e) == Norm(m, e)
Num(i) == Norm(i, 0)

IsNaN(x) == x.k = "nan"
IsInf(x) == x.k = "inf"
IsFinite(x) == x.k = "fin"
FSign(x) == ISign(x.m)

FNeg(x) == [x EXCEPT !.m = -x.m]
FAbs(x) == [x EXCEPT !.m = IAbs(x.m)]

----------------------------------------------------------------------------
(* Comparison: every comparison with NaN is false, except !==.             *)

\* x < y for finite x and y.
FinLt(x, y) ==
    IF FSign(x) # FSign(y) THEN FSign(x) < FSign(y)
    ELSE IF FSign(x) = 0 THEN FALSE
    ELSE IF FSign(x) > 0
         THEN x.e < y.e \/ (x.e = y.e /\ x.m < y.m)
         ELSE x.e > y.e \/ (x.e = y.e /\ x.m < y.m)

FLt(x, y) ==
    IF IsNaN(x) \/ IsNaN(y) THEN FALSE
    ELSE IF IsInf(x) THEN x.m < 0 /\ y # NegInf
    ELSE IF IsInf(y) THEN y.m > 0
    ELSE FinLt(x, y)

FEq(x, y) == ~IsNaN(x) /\ ~IsNaN(y) /\ x = y
FNe(x, y) == ~FEq(x, y)
FLe(x, y) == FLt(x, y) \/ FEq(x, y)
FGt(x, y) == FLt(y, x)
FGe(x, y) == FLe(y, x)

----------------------------------------------------------------------------
(* Arithmetic                                                              *)

\* x + y for finite, nonzero x and y with x.e >= y.e: y is aligned to x with
\* three guard digits.
AddAligned(x, y) ==
    LET d == x.e - y.e
    IN IF d > 9 THEN x
       ELSE Norm(x.m * Split + ISign(y.m) * ((IAbs(y.m) * Split) \div Pow10(d)),
                 x.e - 3)

FAdd(x, y) ==
    IF IsNaN(x) \/ IsNaN(y) THEN NaN
    ELSE IF IsInf(x) THEN (IF IsInf(y) /\ y.m # x.m THEN NaN ELSE x)
    ELSE IF IsInf(y) THEN y
    ELSE IF x.m = 0 THEN y
    ELSE IF y.m = 0 THEN x
    ELSE IF x.e >= y.e THEN AddAligned(x, y) ELSE AddAligned(y, x)

FSub(x, y) == FAdd(x, FNeg(y))

\* |x| * |y| / 10^3 for two six-digit mantissas, computed in halves of three
\* digits so that no intermediate product leaves 32 bits.
MulMant(a, b) ==
    LET a1 == a \div Split
        a0 == a % Split
        b1 == b \div Split
        b0 == b % Split
    IN (a1 * b1) * Split + (a1 * b0 + a0 * b1) + ((a0 * b0) \div Split)

FMul(x, y) ==
    IF IsNaN(x) \/ IsNaN(y) THEN NaN
    ELSE IF IsInf(x) \/ IsInf(y)
         THEN (IF FSign(x) * FSign(y) = 0 THEN NaN
               ELSE IF FSign(x) * FSign(y) > 0 THEN PosInf ELSE NegInf)
    ELSE IF x.m = 0 \/ y.m = 0 THEN Zero
    ELSE Norm(ISign(x.m) * ISign(y.m) * MulMant(IAbs(x.m), IAbs(y.m)),
              x.e + y.e + 3)

\* |x| / |y| * 10^7 for two six-digit mantissas, by long division in chunks.
DivMant(a, b) ==
    LET q0 == a \div b
        r0 == a % b
        q1 == (r0 * Split) \div b
        r1 == (r0 * Split) % b
        q2 == (r1 * Split) \div b
        r2 == (r1 * Split) % b
        q3 == (r2 * 10) \div b
    IN (q0 * MantHi + q1 * Split + q2) * 10 + q3

FDiv(x, y) ==
    IF IsNaN(x) \/ IsNaN(y) THEN NaN
    ELSE IF IsInf(x)
         THEN (IF IsInf(y) THEN NaN
               ELSE IF x.m * (IF y.m < 0 THEN -1 ELSE 1) > 0 THEN PosInf ELSE NegInf)
    ELSE IF IsInf(y) THEN Zero
    ELSE IF y.m = 0
         THEN (IF x.m = 0 THEN NaN ELSE IF x.m > 0 THEN PosInf ELSE NegInf)
    ELSE IF x.m = 0 THEN Zero
    ELSE Norm(ISign(x.m) * ISign(y.m) * DivMant(IAbs(x.m), IAbs(y.m)),
              x.e - y.e - 7)

----------------------------------------------------------------------------
(* Math.sqrt, Math.exp, Math.log, Math.asin, Math.ceil                     *)

RECURSIVE ISqrtIter(_, _)
\* Integer Newton iteration downwards from r >= sqrt(n): floor(sqrt(n)).
ISqrtIter(n, r) ==
    LET r2 == (r + n \div r) \div 2
    IN IF r2 >= r THEN r ELSE ISqrtIter(n, r2)

\* One Newton step from the estimate s0 of sqrt(x).
SqrtRefine(x, s0) == FMul(F(5, -1), FAdd(s0, FDiv(x, s0)))

\* Math.sqrt: NaN below zero; otherwise the integer root of the mantissa
\* (four digits) refined by one Newton step.
FSqrt(x) ==
    IF IsNaN(x) THEN NaN
    ELSE IF x.m < 0 THEN NaN
    ELSE IF IsInf(x) THEN PosInf
    ELSE IF x.m = 0 THEN Zero
    ELSE IF (x.e % 2) # 0
         THEN SqrtRefine(x, Norm(ISqrtIter(x.m * 1000, 46340), (x.e - 3) \div 2))
         ELSE SqrtRefine(x, Norm(ISqrtIter(x.m * 100, 46340), (x.e - 2) \div 2))

Ln10 == F(230259, -5)

RECURSIVE ExpSeries(_, _, _)
\* 1 + f/1 * (1 + f/2 * (... (1 + f/n * acc))): the Taylor series of exp(f),
\* 0 <= f < 2.31, by Horner's rule from the innermost term outwards.
ExpSeries(f, n, acc) ==
    IF n = 0 \/ IsNaN(acc) THEN acc
    ELSE ExpSeries(f, n - 1, FAdd(Num(1), FMul(FDiv(f, Num(n)), acc)))

\* floor(u) as an integer, for finite 0 <= u < 10^6.
IFloor(u) ==
    IF u.m = 0 THEN 0
    ELSE IF u.e >= 0 THEN u.m * Pow10(u.e)
    ELSE IF u.e < -6 THEN 0
    ELSE u.m \div Pow10(-u.e)

\* r with its decimal exponent lowered by k.
Scale10(r, k) == [r EXCEPT !.e = r.e - k]

\* exp(-f) for the remainder f of the reduction, clamped at 0.
ExpNegRemainder(f) ==
    IF f.m < 0 THEN Num(1) ELSE FDiv(Num(1), ExpSeries(f, 16, Num(1)))

\* exp(-u) = 10^(-k) * exp(-(u - k * ln 10)).
ExpNegReduced(u, k) == Scale10(ExpNegRemainder(FSub(u, FMul(Num(k), Ln10))), k)

\* exp(-u) for finite u >= 0.
ExpNeg(u) ==
    IF FGt(u, Num(745)) THEN Zero ELSE ExpNegReduced(u, IFloor(FDiv(u, Ln10)))

FExp(x) ==
    IF IsNaN(x) THEN NaN
    ELSE IF IsInf(x) THEN (IF x.m > 0 THEN PosInf ELSE Zero)
    ELSE IF x.m <= 0 THEN ExpNeg(FNeg(x))
    ELSE IF FGt(x, Num(709)) THEN PosInf
    ELSE FDiv(Num(1), ExpNeg(x))

RECURSIVE AtanhSeries(_, _, _)
\* 1/1 + w * (1/3 + w * (... (1/n + w * acc))): atanh(u)/u with
\* w = u^2 <= 0.27, from the innermost term outwards.
AtanhSeries(w, n, acc) ==
    IF n < 1 \/ IsNaN(acc) THEN acc
    ELSE AtanhSeries(w, n - 2, FAdd(FDiv(Num(1), Num(n)), FMul(w, acc)))

\* 2 * atanh(u)
TwiceAtanh(u) == FMul(FMul(Num(2), u), AtanhSeries(FMul(u, u), 25, Zero))

\* ln(r) = 2 * atanh((r - 1)/(r + 1)) for 0.316 <= r < 3.163.
LogNear1(r) == TwiceAtanh(FDiv(FSub(r, Num(1)), FAdd(r, Num(1))))

\* Math.log: ln(r * 10^E) = E * ln 10 + ln(r).
FLog(x) ==
    IF IsNaN(x) THEN NaN
    ELSE IF x.m < 0 THEN NaN
    ELSE IF IsInf(x) THEN PosInf
    ELSE IF x.m = 0 THEN NegInf
    ELSE IF x.m >= 316228
         THEN FAdd(FMul(Num(x.e + 6), Ln10),
                   LogNear1([k |-> "fin", m |-> x.m, e |-> -6]))
         ELSE FAdd(FMul(Num(x.e + 5), Ln10),
                   LogNear1([k |-> "fin", m |-> x.m, e |-> -5]))

RECURSIVE AtanSeries(_, _, _)
\* 1/1 - w * (1/3 - w * (... (1/n - w * acc))): atan(v)/v with
\* w = v^2 <= 0.172, from the innermost term outwards.
AtanSeries(w, n, acc) ==
    IF n < 1 \/ IsNaN(acc) THEN acc
    ELSE AtanSeries(w, n - 2, FSub(FDiv(Num(1), Num(n)), FMul(w, acc)))

\* t / (1 + sqrt(1 + sign * t^2)): the half-angle argument.
HalfAngle(t, sign) ==
    FDiv(t, FAdd(Num(1), FSqrt(FAdd(Num(1), FMul(Num(sign), FMul(t, t))))))

\* 2 * atan(v) for 0 <= v <= 0.415.
TwiceAtan(v) == FMul(Num(2), FMul(v, AtanSeries(FMul(v, v), 19, Zero)))

\* asin(s) for 0 <= s <= 1: asin(s) = 2 * atan(t) with t = s / (1 + sqrt(1 - s^2)),
\* and atan(t) = 2 * atan(t / (1 + sqrt(1 + t^2))).
AsinUnit(s) == FMul(Num(2), TwiceAtan(HalfAngle(HalfAngle(s, -1), 1)))

\* Math.asin: NaN outside [-1, 1].
FAsin(x) ==
    IF IsNaN(x) \/ IsInf(x) THEN NaN
    ELSE IF FGt(FAbs(x), Num(1)) THEN NaN
    ELSE IF x.m < 0 THEN FNeg(AsinUnit(FAbs(x))) ELSE AsinUnit(FAbs(x))

\* Math.ceil: NaN and the infinities are returned unchanged.
FCeil(x) ==
    IF ~IsFinite(x) THEN x
    ELSE IF x.e >= 0 THEN x
    ELSE IF x.e <= -6 THEN (IF x.m > 0 THEN Num(1) ELSE Zero)
    ELSE LET p == Pow10(-x.e)
             q == IAbs(x.m) \div p
             r == IAbs(x.m) % p
         IN IF x.m > 0 THEN Num(IF r > 0 THEN q + 1 ELSE q) ELSE Num(-q)

\* Math.floor
MathFloor(x) == FNeg(FCeil(FNeg(x)))

\* Math.max and Math.min of two numbers: NaN when either is NaN.
MathMax(x, y) == IF IsNaN(x) \/ IsNaN(y) THEN NaN ELSE IF FLt(x, y) THEN y ELSE x
MathMin(x, y) == IF IsNaN(x) \/ IsNaN(y) THEN NaN ELSE IF FLt(y, x) THEN y ELSE x


----------------------------------------------------------------------------
(* Results of a call: a returned value, or a thrown Error.                 *)

Ok(v) == [tag |-> "ok", val |-> v]
Throw(message) == [tag |-> "throw", msg |-> message]
IsOk(r) == r.tag = "ok"
IsThrow(r) == r.tag = "throw"

----------------------------------------------------------------------------
(* StatisticsCalculator: private numeric helpers                           *)

\* erf: Abramowitz-Stegun approximation; the coefficients are the source's,
\* rounded to six digits.
\* (((((a5 * t + a4) * t) + a3) * t + a2) * t + a1) * t
erfPolynomial(t) ==
    FMul(FAdd(FMul(FAdd(FMul(FAdd(FMul(FAdd(FMul(F(106141, -5), t), F(-145315, -5)), t),
                                  F(142141, -5)), t),
                        F(-284497, -6)), t),
              F(254830, -6)), t)

\* y for x = Math.abs(x0), with t = 1 / (1 + p * x).
erfAbs(x) ==
    FSub(Num(1),
         FMul(erfPolynomial(FDiv(Num(1), FAdd(Num(1), FMul(F(327591, -6), x)))),
              FExp(FNeg(FMul(x, x)))))

erf(x0) == FMul(IF FLt(x0, Zero) THEN Num(-1) ELSE Num(1), erfAbs(FAbs(x0)))

normalCDF(x) == FDiv(FAdd(Num(1), erf(FDiv(x, FSqrt(Num(2))))), Num(2))

\* t - (c0 + c1 t + c2 t^2) / (1 + d1 t + d2 t^2 + d3 t^3)
normalInverseRational(t) ==
    FSub(t,
         FDiv(FAdd(FAdd(F(251552, -5), FMul(F(802853, -6), t)),
                   FMul(FMul(F(10328, -6), t), t)),
              FAdd(FAdd(FAdd(Num(1), FMul(F(143279, -5), t)),
                        FMul(FMul(F(189269, -6), t), t)),
                   FMul(FMul(FMul(F(1308, -6), t), t), t))))

\* The value for 0 < p <= 0.5, with t = sqrt(-2 ln p).
normalInverseLower(p) == normalInverseRational(FSqrt(FMul(Num(-2), FLog(p))))

\* A reflective call whose result is handed back unchanged;
\* SampleSizeMonotoneForProportions tells it from the negation of the source.
NotNegated(r) == r

\* -r for the result r of a call; a throw propagates.
Negated(r) == IF IsThrow(r) THEN r ELSE Ok(FNeg(r.val))

\* A guard that tests the upper end only; NormalInverseRejectsOutsideUnit
\* tells it from the guard of the source.
OutsideUnitAboveOnly(p) == FGe(p, Num(1))

\* p <= 0 || p >= 1, the guard of the throw.
OutsideUnit(p) == FLe(p, Zero) \/ FGe(p, Num(1))

\* p > 0.5, the test of the reflective call, and its argument 1 - p.
InUpperHalf(p) == FGt(p, F(5, -1))
Reflected(p) == FSub(Num(1), p)

RECURSIVE normalInverse(_)
\* Throws outside (0, 1); for p > 0.5 returns -normalInverse(1 - p).
normalInverse(p) ==
    IF OutsideUnit(p) THEN Throw("p must be between 0 and 1")
    ELSE IF InUpperHalf(p) THEN Negated(normalInverse(Reflected(p)))
    ELSE Ok(normalInverseLower(p))

\* Math.pow(x, 2)
Square(x) == FMul(x, x)

\* Math.ceil(numerator / denominator) of the two sample-size functions, from
\* the two quantiles; a throw of normalInverse propagates.
SampleSizeFrom(zAlpha, zBeta, pooled, delta) ==
    IF IsThrow(zAlpha) THEN zAlpha
    ELSE IF IsThrow(zBeta) THEN zBeta
    ELSE Ok(FCeil(FDiv(FMul(FMul(FMul(Square(FAdd(zAlpha.val, zBeta.val)), Num(2)),
                                 pooled),
                            FSub(Num(1), pooled)),
                       Square(delta))))

\* Sample size from observed rates, at 95% confidence and 80% power.
calculateSampleSizeFromData(controlRate, treatmentRate) ==
    SampleSizeFrom(normalInverse(F(975, -3)), normalInverse(F(8, -1)),
                   FDiv(FAdd(controlRate, treatmentRate), Num(2)),
                   FAbs(FSub(treatmentRate, controlRate)))

----------------------------------------------------------------------------
(* StatisticsCalculator.performZTest                                       *)

\* A faulty guard that looks at the control arm only; ZTestRejectsEmptyArm
\* tells it from the guard of the source.
SampleSizeMissingControlOnly(controlTotal, treatmentTotal) == FEq(controlTotal, Zero)

\* The guard of the throw: an arm without visitors.
SampleSizeMissing(controlTotal, treatmentTotal) ==
    FEq(controlTotal, Zero) \/ FEq(treatmentTotal, Zero)

\* The conversion without its zero test; LiftGuardsZeroControlRate tells it
\* from the conversion of the source.
RelativeLiftUnguarded(delta, base) == FMul(FDiv(delta, base), Num(100))

\* base !== 0 ? (delta / base) * 100 : 0, the conversion of a difference of
\* rates to a relative lift in percent.
RelativeLift(delta, base) ==
    IF FNe(base, Zero) THEN FMul(FDiv(delta, base), Num(100)) ELSE Zero

\* A level of 0.2; ReferenceDataClassified tells it from the level of the
\* source.
SignificanceLevelLoose == F(2, -1)

\* The significance level performZTest compares pValue with.
SignificanceLevel == F(5, -2)

\* The p-value without Math.abs; ZTestSwapSymmetricForNonzeroRates tells it
\* from the p-value of the source.
UpperTailP(zScore) == FMul(Num(2), FSub(Num(1), normalCDF(zScore)))

\* 2 * (1 - normalCDF(|zScore|))
TwoTailedP(zScore) == FMul(Num(2), FSub(Num(1), normalCDF(FAbs(zScore))))

\* Cohen's h: 2 * (asin(sqrt(treatmentRate)) - asin(sqrt(controlRate)))
CohenH(controlRate, treatmentRate) ==
    FMul(Num(2), FSub(FAsin(FSqrt(treatmentRate)), FAsin(FSqrt(controlRate))))

\* A margin of the wrong sign; ConfidenceIntervalOrdered tells it from the
\* margin of the source.
MarginOfErrorNegated(controlRate, controlTotal, treatmentRate, treatmentTotal) ==
    FMul(F(-196, -2),
         FSqrt(FAdd(FDiv(FMul(controlRate, FSub(Num(1), controlRate)), controlTotal),
                    FDiv(FMul(treatmentRate, FSub(Num(1), treatmentRate)),
                         treatmentTotal))))

\* 1.96 * diffStandardError
MarginOfError(controlRate, controlTotal, treatmentRate, treatmentTotal) ==
    FMul(F(196, -2),
         FSqrt(FAdd(FDiv(FMul(controlRate, FSub(Num(1), controlRate)), controlTotal),
                    FDiv(FMul(treatmentRate, FSub(Num(1), treatmentRate)),
                         treatmentTotal))))

\* The returned object, from the intermediate values of the function body.
ZTestResults(controlRate, treatmentRate, standardError, zScore, pValue, marginOfError, required) ==
    IF IsThrow(required) THEN required
    ELSE Ok([controlRate |-> controlRate,
             treatmentRate |-> treatmentRate,
             lift |-> RelativeLift(FSub(treatmentRate, controlRate), controlRate),
             pValue |-> pValue,
             zScore |-> zScore,
             standardError |-> standardError,
             confidenceInterval |->
                 <<RelativeLift(FSub(FSub(treatmentRate, controlRate), marginOfError),
                                controlRate),
                   RelativeLift(FAdd(FSub(treatmentRate, controlRate), marginOfError),
                                controlRate)>>,
             isSignificant |-> FLt(pValue, SignificanceLevel),
             effectSize |-> CohenH(controlRate, treatmentRate),
             requiredSampleSize |-> required.val])

\* sqrt(pooledRate * (1 - pooledRate) * (1/controlTotal + 1/treatmentTotal))
StandardError(pooledRate, controlTotal, treatmentTotal) ==
    FSqrt(FMul(FMul(pooledRate, FSub(Num(1), pooledRate)),
               FAdd(FDiv(Num(1), controlTotal), FDiv(Num(1), treatmentTotal))))

\* The body of performZTest after the rates and the standard error.
ZTestFrom(controlRate, controlTotal, treatmentRate, treatmentTotal, standardError) ==
    ZTestResults(controlRate, treatmentRate, standardError,
                 FDiv(FSub(treatmentRate, controlRate), standardError),
                 TwoTailedP(FDiv(FSub(treatmentRate, controlRate), standardError)),
                 MarginOfError(controlRate, controlTotal, treatmentRate, treatmentTotal),
                 calculateSampleSizeFromData(controlRate, treatmentRate))

\* performZTest on numbers.
ZTest(controlConversions, controlTotal, treatmentConversions, treatmentTotal) ==
    IF SampleSizeMissing(controlTotal, treatmentTotal)
    THEN Throw("Sample sizes must be greater than 0")
    ELSE ZTestFrom(FDiv(controlConversions, controlTotal), controlTotal,
                   FDiv(treatmentConversions, treatmentTotal), treatmentTotal,
                   StandardError(FDiv(FAdd(controlConversions, treatmentConversions),
                                      FAdd(controlTotal, treatmentTotal)),
                                 controlTotal, treatmentTotal))

performZTest(data) ==
    ZTest(Num(data.controlConversions), Num(data.controlTotal),
          Num(data.treatmentConversions), Num(data.treatmentTotal))

----------------------------------------------------------------------------
(* StatisticsCalculator.calculateROI and calculateSampleSize               *)

\* The ratio without its zero test; RoiGuardsZeroCost tells it from the
\* ratio of the source.
ReturnOnInvestmentUnguarded(netPresentValue, totalCost) ==
    FMul(FDiv(netPresentValue, totalCost), Num(100))

\* totalCost !== 0 ? (netPresentValue / totalCost) * 100 : 0
ReturnOnInvestment(netPresentValue, totalCost) ==
    IF FNe(totalCost, Zero) THEN FMul(FDiv(netPresentValue, totalCost), Num(100)) ELSE Zero

\* additionalRevenue > 0 ? totalCost / (additionalRevenue / testDuration) : Infinity
PaybackPeriod(totalCost, additionalRevenue, testDuration) ==
    IF FGt(additionalRevenue, Zero)
    THEN FDiv(totalCost, FDiv(additionalRevenue, testDuration))
    ELSE PosInf

\* The returned object, from totalCost and additionalRevenue.
ROIResults(totalCost, additionalRevenue, testDuration) ==
    Ok([totalCost |-> totalCost,
        additionalRevenue |-> additionalRevenue,
        netPresentValue |-> FSub(additionalRevenue, totalCost),
        roi |-> ReturnOnInvestment(FSub(additionalRevenue, totalCost), totalCost),
        paybackPeriod |-> PaybackPeriod(totalCost, additionalRevenue, testDuration),
        annualizedRevenue |-> FMul(additionalRevenue, FDiv(Num(365), testDuration)),
        riskAdjustedReturn |-> FMul(FSub(additionalRevenue, totalCost), F(8, -1))])

\* testingCost + opportunityCost
TotalCost(treatmentTotal, costPerVisitor, testDuration, dailyTraffic) ==
    FAdd(FMul(FMul(treatmentTotal, Num(2)), costPerVisitor),
         FMul(FMul(FMul(dailyTraffic, FDiv(testDuration, Num(2))), costPerVisitor),
              F(1, -1)))

\* treatmentRevenue - controlRevenue
AdditionalRevenue(results, treatmentTotal, revenuePerConversion) ==
    FSub(FMul(FMul(results.treatmentRate, treatmentTotal), revenuePerConversion),
         FMul(FMul(results.controlRate, treatmentTotal), revenuePerConversion))

calculateROI(data, config, results) ==
    ROIResults(TotalCost(Num(data.treatmentTotal), config.costPerVisitor,
                         config.testDuration, config.dailyTraffic),
               AdditionalRevenue(results, Num(data.treatmentTotal),
                                 config.revenuePerConversion),
               config.testDuration)

\* p1 = baselineRate / 100 and p2 = p1 * (1 + minimumDetectableEffect / 100)
BaselineP(config) == FDiv(config.baselineRate, Num(100))
TargetP(config) ==
    FMul(BaselineP(config), FAdd(Num(1), FDiv(config.minimumDetectableEffect, Num(100))))

calculateSampleSize(config) ==
    SampleSizeFrom(normalInverse(FSub(Num(1), FDiv(config.alpha, Num(2)))),
                   normalInverse(config.power),
                   FDiv(FAdd(BaselineP(config), TargetP(config)), Num(2)),
                   FSub(TargetP(config), BaselineP(config)))

----------------------------------------------------------------------------
(* StatisticsCalculator.performBayesianAnalysis                            *)
(*                                                                         *)
(* Math.random is the environment.  One iteration of a sampling loop calls *)
(* betaRandom twice, and each betaRandom calls gammaRandom twice: the      *)
(* iteration consumes a draw <<xA, yA, xB, yB>> of four positive Gamma     *)
(* variates, and a call consumes a stream of Simulations + CredibleSamples *)
(* draws.                                                                   *)

\* Iterations of the probability loop (100000 in the source) and of the
\* credible-interval loop (10000 in the source).
Simulations == 2
CredibleSamples == 2

\* gammaRandom(shape) with g the variate the rejection loop returns for a
\* shape >= 1.  For an integer shape < 1 the recursion
\* gammaRandom(shape + 1) * Math.pow(Math.random(), 1 / shape) passes
\* through shape = 0, where the factor is u^Infinity = 0 for u in [0, 1),
\* and the product stays 0 (Math.random() returning exactly 0 on the way
\* is left out).
gammaRandom(shape, g) == IF shape < 1 THEN Zero ELSE g

betaRandom(alpha, beta, gx, gy) ==
    LET x == gammaRandom(alpha, gx)
        y == gammaRandom(beta, gy)
    IN FDiv(x, FAdd(x, y))

\* sampleA !== 0 ? ((sampleB - sampleA) / sampleA) * 100 : 0
SampleLift(sampleA, sampleB) ==
    IF FNe(sampleA, Zero)
    THEN FMul(FDiv(FSub(sampleB, sampleA), sampleA), Num(100))
    ELSE Zero

\* The two samples of iteration i.
SampleOf(posterior, draw, first) ==
    betaRandom(posterior.alpha, posterior.beta, draw[first], draw[first + 1])

\* An iteration that also counts ties; ProbabilityBWinsIsWinShare tells it
\* from the iteration of the source.
SimulateCountingTies(counted, sampleA, sampleB) ==
    <<IF FGe(sampleB, sampleA) THEN counted[1] + 1 ELSE counted[1],
      FAdd(counted[2], SampleLift(sampleA, sampleB))>>

\* One iteration of the first loop on <<bWinsCount, liftSum>>.
Simulate(counted, sampleA, sampleB) ==
    <<IF FGt(sampleB, sampleA) THEN counted[1] + 1 ELSE counted[1],
      FAdd(counted[2], SampleLift(sampleA, sampleB))>>

RECURSIVE SimulationLoop(_, _, _, _)
\* <<bWinsCount, liftSum>> after i iterations of the first loop.
SimulationLoop(posteriorA, posteriorB, stream, i) ==
    IF i = 0 THEN <<0, Zero>>
    ELSE Simulate(SimulationLoop(posteriorA, posteriorB, stream, i - 1),
                  SampleOf(posteriorA, stream[i], 1),
                  SampleOf(posteriorB, stream[i], 3))

\* The second loop: liftSamples in the order pushed.
CredibleLoop(posteriorA, posteriorB, stream) ==
    [i \in 1..CredibleSamples |->
        SampleLift(SampleOf(posteriorA, stream[Simulations + i], 1),
                   SampleOf(posteriorB, stream[Simulations + i], 3))]

\* The samples left in the order pushed; CredibleIntervalIsOrderedPercentiles
\* tells it from the sort of the source.
Unsorted(samples) == samples

RECURSIVE InsertSorted(_, _)
InsertSorted(sorted, v) ==
    IF sorted = <<>> THEN <<v>>
    ELSE IF FLt(v, Head(sorted)) THEN <<v>> \o sorted
    ELSE <<Head(sorted)>> \o InsertSorted(Tail(sorted), v)

RECURSIVE SortAscending(_)
\* liftSamples.sort((a, b) => a - b).  The samples of one call are all
\* finite or all NaN, so the comparator orders them.
SortAscending(samples) ==
    IF samples = <<>> THEN <<>>
    ELSE InsertSorted(SortAscending(Tail(samples)), Head(samples))

\* Math.floor(0.025 * length) and Math.floor(0.975 * length), zero-based.
LowerIndex(length) == (25 * length) \div 1000
UpperIndex(length) == (975 * length) \div 1000

\* The returned object, from the loop results and the sorted liftSamples.
BayesianResultsOf(posteriorA, posteriorB, counted, liftSamples) ==
    Ok([probabilityBWins |-> FDiv(Num(counted[1]), Num(Simulations)),
        expectedLift |-> FDiv(counted[2], Num(Simulations)),
        credibleInterval |-> <<liftSamples[LowerIndex(Len(liftSamples)) + 1],
                               liftSamples[UpperIndex(Len(liftSamples)) + 1]>>,
        posteriorA |-> posteriorA,
        posteriorB |-> posteriorB])

\* The two loops and the sort, for the posterior parameters.
BayesianFrom(posteriorA, posteriorB, stream) ==
    BayesianResultsOf(posteriorA, posteriorB,
                      SimulationLoop(posteriorA, posteriorB, stream, Simulations),
                      SortAscending(CredibleLoop(posteriorA, posteriorB, stream)))

\* The posterior without the prior counts; PosteriorParametersPositive
\* tells it from the posterior of the source.
PosteriorWithoutPrior(conversions, total) == [alpha |-> conversions, beta |-> total - conversions]

\* priorAlpha + conversions, priorBeta + total - conversions, uniform prior Beta(1, 1).
Posterior(conversions, total) == [alpha |-> 1 + conversions, beta |-> 1 + total - conversions]

performBayesianAnalysis(data, stream) ==
    BayesianFrom(Posterior(data.controlConversions, data.controlTotal),
                 Posterior(data.treatmentConversions, data.treatmentTotal), stream)

----------------------------------------------------------------------------
(* State                                                                   *)
(*                                                                         *)
(* call, ret: a direct call of a StatisticsCalculator method and what it   *)
(* returned or threw.  entered: the arguments of the normalInverse         *)
(* invocations a direct call of normalInverse has entered, outermost       *)
(* first.  earlier: what the same call returned or threw when it was made  *)
(* before.  The other variables are the state of one mounted useABTesting  *)
(* hook: its useState cells and its useMemo values.                        *)

(* notifications, now: the list of a mounted useNotifications hook and the *)
(* last value Date.now() returned.                                         *)

VARIABLES call, ret, entered, earlier,
          testConfig, testData, mlPredictions, isLoading, error,
          requiredSampleSize, statisticalResults, bayesianResults, roiAnalysis,
          notifications, now,
          metrics, isEnabled, interval,
          cacheStorage, activation, cacheNames, pendingDeletes,
          event, dispatched, respondWithCalls, responder, stage,
          networkResult, response,
          pending, started

hookVars == <<testConfig, testData, mlPredictions, isLoading, error,
              requiredSampleSize, statisticalResults, bayesianResults, roiAnalysis>>
engineVars == <<call, ret, entered, earlier>>
notificationVars == <<notifications, now>>
metricsVars == <<metrics, isEnabled, interval>>
activationVars == <<activation, cacheNames, pendingDeletes>>
fetchVars == <<event, dispatched, respondWithCalls, responder, stage,
               networkResult, response>>
workerVars == <<cacheStorage, activationVars, fetchVars>>
predictionVars == <<pending, started>>
vars == <<engineVars, hookVars, notificationVars, metricsVars, workerVars,
         predictionVars>>

\* What a direct call, a useABTesting callback and a useNotifications
\* callback leave alone.
beyondEngine == <<hookVars, notificationVars, metricsVars, workerVars, predictionVars>>
beyondComponent == <<engineVars, notificationVars, metricsVars, workerVars>>
beyondHook == <<beyondComponent, predictionVars>>
beyondNotifications == <<engineVars, hookVars, metricsVars, workerVars, predictionVars>>
beyondMetrics == <<engineVars, hookVars, notificationVars, workerVars, predictionVars>>
beyondWorker == <<engineVars, hookVars, notificationVars, metricsVars, predictionVars>>

Null == [null |-> TRUE]
Unmounted == [unmounted |-> TRUE]
NoArg == [none |-> TRUE]
NoCall == [op |-> "none"]
NotReturned == [tag |-> "none"]

\* useState initial values, which are also what resetToDefaults sets.
DefaultConfig ==
    [baselineRate |-> F(125, -1),
     minimumDetectableEffect |-> F(25, -1),
     alpha |-> F(5, -2),
     power |-> F(8, -1),
     trafficSplit |-> Num(50),
     testDuration |-> Num(14),
     dailyTraffic |-> Num(2500),
     costPerVisitor |-> F(15, -2),
     revenuePerConversion |-> Num(25),
     industry |-> "ecommerce",
     testType |-> "conversion"]

DefaultData ==
    [controlConversions |-> 1247, controlTotal |-> 12500,
     treatmentConversions |-> 1398, treatmentTotal |-> 12500]

----------------------------------------------------------------------------
(* Inputs of the direct calls                                              *)

\* One arm of a test: <<conversions, total>>.
Arms ==
    {<<0, 0>>, <<5, 0>>, <<0, 10>>, <<5, 10>>, <<10, 10>>, <<20, 10>>,
     <<50, 1000>>, <<65, 1000>>, <<72, 1000>>, <<1247, 12500>>, <<1398, 12500>>}

SmallArms == {arm \in Arms : arm[2] <= 10}

TestDataOf(control, treatment) ==
    [controlConversions |-> control[1], controlTotal |-> control[2],
     treatmentConversions |-> treatment[1], treatmentTotal |-> treatment[2]]

GammaDraws ==
    {<<Num(1), Num(3), Num(3), Num(1)>>,
     <<Num(3), Num(1), Num(1), Num(3)>>,
     <<Num(1), Num(1), Num(1), Num(1)>>}

Streams == [1..(Simulations + CredibleSamples) -> GammaDraws]

ZTestCalls ==
    {[op |-> "performZTest", data |-> TestDataOf(control, treatment),
      config |-> NoArg, results |-> NoArg, stream |-> NoArg] :
        control \in Arms, treatment \in Arms}

BayesianCalls ==
    {[op |-> "performBayesianAnalysis", data |-> TestDataOf(control, treatment),
      config |-> NoArg, results |-> NoArg, stream |-> stream] :
        control \in SmallArms, treatment \in SmallArms, stream \in Streams}

ROIConfigs ==
    {[DefaultConfig EXCEPT !.costPerVisitor = cost, !.revenuePerConversion = revenue,
                           !.testDuration = duration] :
        cost \in {F(15, -2), Zero, F(-15, -2)},
        revenue \in {Num(25), Zero, Num(-25)},
        duration \in {Num(14), Zero, Num(-14)}}

ROIData ==
    {TestDataOf(<<1247, 12500>>, <<1398, 12500>>),
     TestDataOf(<<1398, 12500>>, <<1247, 12500>>),
     TestDataOf(<<50, 1000>>, <<50, 1000>>),
     TestDataOf(<<0, 10>>, <<5, 10>>)}

\* calculateROI is handed the results of performZTest on the same data.
ROICalls ==
    UNION {LET tested == performZTest(data)
           IN {[op |-> "calculateROI", data |-> data, config |-> config,
                results |-> tested.val, stream |-> NoArg] : config \in ROIConfigs} :
           data \in ROIData}

SampleSizeConfigs ==
    {[DefaultConfig EXCEPT !.baselineRate = rate, !.minimumDetectableEffect = mde,
                           !.alpha = level, !.power = pow] :
        rate \in {F(125, -1), Zero, Num(50), Num(90)},
        mde \in {F(25, -1), Zero, Num(50), Num(100)},
        level \in {F(5, -2), F(1, -2), F(1, -1), Zero, Num(1), F(15, -1), Num(2), F(-1, -1)},
        pow \in {F(8, -1), F(9, -1), Zero, Num(1), F(12, -1), F(5, -1), F(1, -2), F(1, -3)}}

SampleSizeCalls ==
    {[op |-> "calculateSampleSize", data |-> NoArg, config |-> config,
      results |-> NoArg, stream |-> NoArg] : config \in SampleSizeConfigs}

\* Arguments of normalInverse: below, at and above the ends of (0, 1), at
\* and next to 0.5, and the quantile levels the class itself uses.
QuantileLevels ==
    {F(-5, -1), Zero, F(1, -6), F(25, -3), F(2, -1), F(499999, -6), F(5, -1),
     F(500001, -6), F(8, -1), F(975, -3), F(999999, -6), Num(1), F(15, -1), Num(2)}

NormalInverseCalls ==
    {[op |-> "normalInverse", data |-> NoArg, config |-> NoArg, results |-> NoArg,
      stream |-> NoArg, p |-> p] : p \in QuantileLevels}

----------------------------------------------------------------------------
(* Direct calls of the StatisticsCalculator methods                        *)

\* No direct call is made, no useABTesting hook and no useNotifications
\* hook is mounted.
EngineIdle ==
    /\ call = NoCall
    /\ ret = NotReturned
    /\ entered = <<>>
    /\ earlier = NotReturned

HookUnmounted ==
    /\ testConfig = Unmounted
    /\ testData = Unmounted
    /\ mlPredictions = Unmounted
    /\ isLoading = Unmounted
    /\ error = Unmounted
    /\ requiredSampleSize = Unmounted
    /\ statisticalResults = Unmounted
    /\ bayesianResults = Unmounted
    /\ roiAnalysis = Unmounted
    /\ pending = Unmounted
    /\ started = Unmounted

NotificationsUnmounted ==
    /\ notifications = Unmounted
    /\ now = Unmounted

MetricsUnmounted ==
    /\ metrics = Unmounted
    /\ isEnabled = Unmounted
    /\ interval = Unmounted

WorkerUnregistered ==
    /\ cacheStorage = Unmounted
    /\ activation = Unmounted
    /\ cacheNames = Unmounted
    /\ pendingDeletes = Unmounted
    /\ event = Unmounted
    /\ dispatched = Unmounted
    /\ respondWithCalls = Unmounted
    /\ responder = Unmounted
    /\ stage = Unmounted
    /\ networkResult = Unmounted
    /\ response = Unmounted

Init ==
    /\ \/ call \in ZTestCalls
       \/ call \in BayesianCalls
       \/ call \in ROICalls
       \/ call \in SampleSizeCalls
       \/ call \in NormalInverseCalls
    /\ ret = NotReturned
    /\ entered = <<>>
    /\ earlier = NotReturned
    /\ HookUnmounted
    /\ NotificationsUnmounted
    /\ MetricsUnmounted
    /\ WorkerUnregistered

\* A performZTest that answers from mutable state: it fails when it is
\* called a second time.  RepeatedCallsAgree tells it from the method of
\* the source.
PerformZTestOnce ==
    /\ call.op = "performZTest"
    /\ ret = NotReturned
    /\ ret' = IF earlier = NotReturned THEN performZTest(call.data)
              ELSE Throw("Sample sizes must be greater than 0")
    /\ UNCHANGED <<call, entered, earlier, beyondEngine>>

PerformZTest ==
    /\ call.op = "performZTest"
    /\ ret = NotReturned
    /\ ret' = performZTest(call.data)
    /\ UNCHANGED <<call, entered, earlier, beyondEngine>>

PerformBayesianAnalysis ==
    /\ call.op = "performBayesianAnalysis"
    /\ ret = NotReturned
    /\ ret' = performBayesianAnalysis(call.data, call.stream)
    /\ UNCHANGED <<call, entered, earlier, beyondEngine>>

CalculateROI ==
    /\ call.op = "calculateROI"
    /\ ret = NotReturned
    /\ ret' = calculateROI(call.data, call.config, call.results)
    /\ UNCHANGED <<call, entered, earlier, beyondEngine>>

CalculateSampleSize ==
    /\ call.op = "calculateSampleSize"
    /\ ret = NotReturned
    /\ ret' = calculateSampleSize(call.config)
    /\ UNCHANGED <<call, entered, earlier, beyondEngine>>

\* The frame on top of the stack of normalInverse invocations.
Innermost == entered[Len(entered)]

RECURSIVE Unwound(_, _)
\* The result r of the innermost invocation, handed back through n
\* reflective callers, each of which returns -r.
Unwound(r, n) == IF n = 0 THEN r ELSE Unwound(Negated(r), n - 1)

\* normalInverse(call.p) is called.
NormalInverseEnter ==
    /\ call.op = "normalInverse"
    /\ ret = NotReturned
    /\ entered = <<>>
    /\ entered' = <<call.p>>
    /\ UNCHANGED <<call, ret, earlier, beyondEngine>>

\* The innermost invocation passes the guard, finds p > 0.5 and calls
\* this.normalInverse(1 - p).
NormalInverseReflect ==
    /\ call.op = "normalInverse"
    /\ ret = NotReturned
    /\ entered # <<>>
    /\ ~OutsideUnit(Innermost)
    /\ InUpperHalf(Innermost)
    /\ entered' = Append(entered, Reflected(Innermost))
    /\ UNCHANGED <<call, ret, earlier, beyondEngine>>

\* The innermost invocation throws or evaluates the rational
\* approximation, and its callers return.
NormalInverseReturn ==
    /\ call.op = "normalInverse"
    /\ ret = NotReturned
    /\ entered # <<>>
    /\ OutsideUnit(Innermost) \/ ~InUpperHalf(Innermost)
    /\ ret' = Unwound(IF OutsideUnit(Innermost)
                      THEN Throw("p must be between 0 and 1")
                      ELSE Ok(normalInverseLower(Innermost)),
                      Len(entered) - 1)
    /\ UNCHANGED <<call, entered, earlier, beyondEngine>>

\* The three methods that draw no random number.
Deterministic == {"performZTest", "calculateROI", "calculateSampleSize"}

\* The caller keeps what a deterministic method returned or threw and
\* makes the same call again.
RepeatCall ==
    /\ call.op \in Deterministic
    /\ ret # NotReturned
    /\ earlier = NotReturned
    /\ earlier' = ret
    /\ ret' = NotReturned
    /\ UNCHANGED <<call, entered, beyondEngine>>

Next ==
    \/ PerformZTest
    \/ PerformBayesianAnalysis
    \/ CalculateROI
    \/ CalculateSampleSize
    \/ NormalInverseEnter
    \/ NormalInverseReflect
    \/ NormalInverseReturn
    \/ RepeatCall

Spec == Init /\ [][Next]_vars

----------------------------------------------------------------------------
(* useABTesting: the useMemo values                                        *)

\* try { return r } catch { return fallback }
Caught(r, fallback) == IF IsThrow(r) THEN fallback ELSE r.val

RequiredSampleSizeMemo(config) == Caught(calculateSampleSize(config), Zero)

StatisticalResultsMemo(data) ==
    IF data.controlTotal = 0 \/ data.treatmentTotal = 0 THEN Null
    ELSE Caught(performZTest(data), Null)

BayesianResultsMemo(data, stream) ==
    IF data.controlTotal = 0 \/ data.treatmentTotal = 0 THEN Null
    ELSE Caught(performBayesianAnalysis(data, stream), Null)

RoiAnalysisMemo(data, config, results) ==
    IF results = Null THEN Null
    ELSE Caught(calculateROI(data, config, results), Null)

----------------------------------------------------------------------------
(* useABTesting: what the callers pass                                     *)

\* Partial<TestData> and Partial<TestConfiguration> objects of one field.
DataUpdates ==
    {[controlConversions |-> n] : n \in {1247, 50}}
    \cup {[controlTotal |-> n] : n \in {12500, 1000, 0}}
    \cup {[treatmentConversions |-> n] : n \in {1398, 72}}
    \cup {[treatmentTotal |-> n] : n \in {12500, 1000, 0}}

ConfigUpdates ==
    {[alpha |-> level] : level \in {F(5, -2), F(1, -2), Num(2)}}
    \cup {[costPerVisitor |-> cost] : cost \in {F(15, -2), Zero}}
    \cup {[minimumDetectableEffect |-> mde] : mde \in {F(25, -1), Zero}}

\* The streams of Math.random results a render of the hook may meet.
HookStreams == {[i \in 1..(Simulations + CredibleSamples) |-> draw] : draw \in GammaDraws}

\* { ...prev, ...updates }
Merged(prev, updates) ==
    [field \in DOMAIN prev |->
        IF field \in DOMAIN updates THEN updates[field] ELSE prev[field]]

\* Every value testData and testConfig can take under these updates.
HookData ==
    {[controlConversions |-> cc, controlTotal |-> ct,
      treatmentConversions |-> tc, treatmentTotal |-> tt] :
        cc \in {1247, 50}, ct \in {12500, 1000, 0},
        tc \in {1398, 72}, tt \in {12500, 1000, 0}}

HookConfigs ==
    {[DefaultConfig EXCEPT !.alpha = level, !.costPerVisitor = cost,
                           !.minimumDetectableEffect = mde] :
        level \in {F(5, -2), F(1, -2), Num(2)},
        cost \in {F(15, -2), Zero},
        mde \in {F(25, -1), Zero}}

\* The useMemo values as functions of their dependencies.
requiredSampleSizeFor == [config \in HookConfigs |-> RequiredSampleSizeMemo(config)]
statisticalResultsFor == [data \in HookData |-> StatisticalResultsMemo(data)]
bayesianResultsFor ==
    [data \in HookData |-> [stream \in HookStreams |-> BayesianResultsMemo(data, stream)]]

----------------------------------------------------------------------------
(* useABTesting: mount and callbacks.  A callback sets state; the render   *)
(* that follows recomputes the useMemo values whose dependencies changed.  *)

HookInit ==
    /\ EngineIdle
    /\ NotificationsUnmounted
    /\ MetricsUnmounted
    /\ WorkerUnregistered
    /\ testConfig = DefaultConfig
    /\ testData = DefaultData
    /\ mlPredictions = Null
    /\ isLoading = FALSE
    /\ error = Null
    /\ pending = {}
    /\ started = 0
    /\ requiredSampleSize = requiredSampleSizeFor[testConfig]
    /\ statisticalResults = statisticalResultsFor[testData]
    /\ \E stream \in HookStreams : bayesianResults = bayesianResultsFor[testData][stream]
    /\ roiAnalysis = RoiAnalysisMemo(testData, testConfig, statisticalResults)

updateTestConfig ==
    \E updates \in ConfigUpdates :
        /\ testConfig' = Merged(testConfig, updates)
        /\ requiredSampleSize' = requiredSampleSizeFor[testConfig']
        /\ roiAnalysis' = RoiAnalysisMemo(testData, testConfig', statisticalResults)
        /\ UNCHANGED <<beyondHook, testData, mlPredictions, isLoading, error,
                       statisticalResults, bayesianResults>>

\* An update that leaves roiAnalysis on the statisticalResults of the
\* previous render; HookDerivedValuesCurrent tells it from the hook.
updateTestDataStaleROI ==
    \E updates \in DataUpdates, stream \in HookStreams :
        /\ testData' = Merged(testData, updates)
        /\ statisticalResults' = statisticalResultsFor[testData']
        /\ bayesianResults' = bayesianResultsFor[testData'][stream]
        /\ roiAnalysis' = RoiAnalysisMemo(testData', testConfig, statisticalResults)
        /\ UNCHANGED <<beyondHook, testConfig, mlPredictions, isLoading, error,
                       requiredSampleSize>>

updateTestData ==
    \E updates \in DataUpdates, stream \in HookStreams :
        /\ testData' = Merged(testData, updates)
        /\ statisticalResults' = statisticalResultsFor[testData']
        /\ bayesianResults' = bayesianResultsFor[testData'][stream]
        /\ roiAnalysis' = RoiAnalysisMemo(testData', testConfig, statisticalResults')
        /\ UNCHANGED <<beyondHook, testConfig, mlPredictions, isLoading, error,
                       requiredSampleSize>>

\* The calls of generateMLPredictions in flight go on; each keeps, in
\* sinceReset, whether it was started after the latest reset.
resetToDefaults ==
    \E stream \in HookStreams :
        /\ testConfig' = DefaultConfig
        /\ testData' = DefaultData
        /\ mlPredictions' = Null
        /\ error' = Null
        /\ requiredSampleSize' = requiredSampleSizeFor[testConfig']
        /\ statisticalResults' = statisticalResultsFor[testData']
        /\ bayesianResults' = bayesianResultsFor[testData'][stream]
        /\ roiAnalysis' = RoiAnalysisMemo(testData', testConfig', statisticalResults')
        /\ pending' = {[request EXCEPT !.sinceReset = FALSE] : request \in pending}
        /\ UNCHANGED <<beyondComponent, started, isLoading>>

HookNext ==
    \/ updateTestConfig
    \/ updateTestData
    \/ resetToDefaults

HookSpec == HookInit /\ [][HookNext]_vars

----------------------------------------------------------------------------
(* useNotifications                                                        *)
(*                                                                         *)
(* A notification is modelled by its id.  The three initial ids are the    *)
(* literals 1, 2, 3; an added notification takes Date.now(), which never   *)
(* goes back and may return the same millisecond twice.                    *)

\* The latest millisecond Date.now() returns, counted from FirstTime.
MaxTime == 7
FirstTime == 4

\* A slice that keeps ten earlier notifications; NotificationsCapped tells
\* it from the slice of the source.
KeptOnAddTen(prev) == SubSeq(prev, 1, IF Len(prev) < 10 THEN Len(prev) ELSE 10)

\* prev.slice(0, 9)
KeptOnAdd(prev) == SubSeq(prev, 1, IF Len(prev) < 9 THEN Len(prev) ELSE 9)

\* prev.filter(n => n.id !== id)
WithoutId(prev, id) == SelectSeq(prev, LAMBDA n : n.id # id)

NotificationsInit ==
    /\ EngineIdle
    /\ HookUnmounted
    /\ MetricsUnmounted
    /\ WorkerUnregistered
    /\ notifications = <<[id |-> 1], [id |-> 2], [id |-> 3]>>
    /\ now = FirstTime

addNotification ==
    \E t \in {now, now + 1} :
        /\ t <= MaxTime
        /\ now' = t
        /\ notifications' = <<[id |-> t]>> \o KeptOnAdd(notifications)
        /\ UNCHANGED beyondNotifications

removeNotification ==
    \E id \in 1..MaxTime :
        /\ notifications' = WithoutId(notifications, id)
        /\ UNCHANGED <<now, beyondNotifications>>

clearAllNotifications ==
    /\ notifications' = <<>>
    /\ UNCHANGED <<now, beyondNotifications>>

NotificationsNext ==
    \/ addNotification
    \/ removeNotification
    \/ clearAllNotifications

NotificationsSpec == NotificationsInit /\ [][NotificationsNext]_vars

----------------------------------------------------------------------------
(* useRealTimeMetrics                                                      *)
(*                                                                         *)
(* isEnabled is the prop of the hook; the component toggles it in a click  *)
(* handler, and the render of a click runs the effect's cleanup and the    *)
(* effect before any timer callback.  interval tells whether the timer of  *)
(* the effect is registered.  lastUpdate counts the ticks.                 *)

\* The number of interval ticks followed.
MaxTicks == 2

\* The values Math.random() returns: the smallest, the middle and the
\* largest below 1.
RandomDraws == {Zero, F(5, -1), F(999999, -6)}

\* An effect that registers the timer whatever isEnabled is;
\* MetricsInRange tells it from the effect of the source.
EffectIntervalAlways(enabled) == TRUE

\* if (!isEnabled) return; const interval = setInterval(...)
EffectInterval(enabled) == enabled

\* The updater passed to setMetrics, for the three values of Math.random()
\* it draws.
TickUpdate(prev, r1, r2, r3) ==
    [prev EXCEPT
        !.activeVisitors =
            MathMax(Zero, FAdd(prev.activeVisitors,
                               MathFloor(FSub(FMul(r1, Num(20)), Num(10))))),
        !.totalRevenue = FAdd(prev.totalRevenue, MathFloor(FMul(r2, Num(100)))),
        !.avgConversion =
            MathMax(Num(8), MathMin(Num(18),
                FAdd(prev.avgConversion, FMul(FSub(r3, F(5, -1)), F(3, -1))))),
        !.lastUpdate = prev.lastUpdate + 1]

\* The metrics of useState, and metrics that earlier ticks have left near
\* the clamps.
MetricsStates ==
    { [activeVisitors |-> v, testsRunning |-> 5, totalRevenue |-> Num(47320),
       avgConversion |-> c, topVariant |-> "B", lastUpdate |-> 0] :
         v \in {Num(2847), Num(5), Zero}, c \in {F(132, -1), F(81, -1), F(179, -1)} }

MetricsInit ==
    /\ EngineIdle
    /\ HookUnmounted
    /\ NotificationsUnmounted
    /\ WorkerUnregistered
    /\ metrics \in MetricsStates
    /\ isEnabled \in BOOLEAN
    /\ interval = EffectInterval(isEnabled)

\* A callback of setInterval.
Tick ==
    /\ interval
    /\ metrics.lastUpdate < MaxTicks
    /\ \E r1 \in RandomDraws, r2 \in RandomDraws, r3 \in RandomDraws :
           metrics' = TickUpdate(metrics, r1, r2, r3)
    /\ UNCHANGED <<isEnabled, interval, beyondMetrics>>

\* The component's button: the prop changes, the cleanup clears the timer
\* and the effect runs again.
ToggleEnabled ==
    /\ isEnabled' = ~isEnabled
    /\ interval' = EffectInterval(isEnabled')
    /\ UNCHANGED <<metrics, beyondMetrics>>

MetricsNext ==
    \/ Tick
    \/ ToggleEnabled

MetricsSpec == MetricsInit /\ [][MetricsNext]_vars

----------------------------------------------------------------------------
(* The service worker, public/sw.js                                        *)
(*                                                                         *)
(* cacheStorage is the CacheStorage of the origin: a function from the     *)
(* names of the existing caches to their entries.  A URL is the sequence   *)
(* of its path segments, so that '/api/export' is <<"api", "export">> and  *)
(* '/' is <<>>.  A fetch event runs the three fetch listeners in the order *)
(* of their registration, then the promise given to the first respondWith  *)
(* settles step by step.                                                   *)

CACHE_NAME == "ab-testing-pro-v2.0.0"
DATA_CACHE_NAME == "ab-testing-pro-data-v1.0.0"

\* Caches of an earlier version of the worker.
OldCacheNames == {"ab-testing-pro-v1.0.0", "ab-testing-pro-data-v0.9.0"}

\* The pathnames FILES_TO_CACHE can equal; its last entry is a full URL.
FILES_TO_CACHE ==
    { <<>>,
      <<"static", "css", "main.css">>,
      <<"static", "js", "main.js">>,
      <<"manifest.json">>,
      <<"favicon.ico">>,
      <<"https:", "fonts.googleapis.com", "css2">> }

API_CACHE_URLS ==
    { <<"api", "statistics">>, <<"api", "ml-predictions">>, <<"api", "export">> }

\* String.prototype.includes, segment by segment.
Includes(url, part) ==
    \E i \in 1..(Len(url) + 1) :
        /\ i + Len(part) - 1 <= Len(url)
        /\ SubSeq(url, i, i + Len(part) - 1) = part

NoEvent == [event |-> "none"]
NotFetched == [fetched |-> FALSE]
NetworkFailed == [failed |-> TRUE]
Pending == [pending |-> TRUE]
Undefined == [undefined |-> TRUE]
NetworkError == [error |-> "TypeError"]

IsResponse(r) == "status" \in DOMAIN r

CachedResponse == [status |-> 200, body |-> "cached"]

\* What fetch(request) can give: a response of the server, or a failure.
NetworkResults ==
    { [status |-> st, body |-> "network"] : st \in {200, 404, 500} }
        \cup {NetworkFailed}

\* The requests followed: API requests, the document, a file of the app
\* shell, an image, and the share and import posts.
Requests ==
    { [url |-> <<"api", "statistics">>, method |-> "GET", destination |-> "", form |-> {}],
      [url |-> <<"api", "export">>, method |-> "POST", destination |-> "", form |-> {}],
      [url |-> <<>>, method |-> "GET", destination |-> "document", form |-> {}],
      [url |-> <<"static", "js", "main.js">>, method |-> "GET", destination |-> "script", form |-> {}],
      [url |-> <<"images", "logo.png">>, method |-> "GET", destination |-> "image", form |-> {}],
      [url |-> <<"share">>, method |-> "POST", destination |-> "document", form |-> {"title", "url"}],
      [url |-> <<"share">>, method |-> "GET", destination |-> "document", form |-> {}],
      [url |-> <<"import">>, method |-> "POST", destination |-> "", form |-> {"file"}] }

\* cache.put: the entry of the URL is replaced.
CachePut(cache, url, resp) ==
    {e \in cache : e.url # url} \cup {[url |-> url, response |-> resp]}

\* cache.match(request): only a GET request matches an entry.
CacheMatch(cache, request) ==
    IF request.method = "GET" /\ \E e \in cache : e.url = request.url
    THEN (CHOOSE e \in cache : e.url = request.url).response
    ELSE Undefined

\* caches.match(request): the first match among the caches, in the order
\* of their creation; the install handler creates CACHE_NAME first.
CachesMatch(storage, request) ==
    IF CACHE_NAME \in DOMAIN storage /\ CacheMatch(storage[CACHE_NAME], request) # Undefined
    THEN CacheMatch(storage[CACHE_NAME], request)
    ELSE IF DATA_CACHE_NAME \in DOMAIN storage
    THEN CacheMatch(storage[DATA_CACHE_NAME], request)
    ELSE Undefined

\* caches.open(name): the cache is created when it does not exist.
CachesOpen(storage, name) ==
    IF name \in DOMAIN storage THEN storage
    ELSE [n \in DOMAIN storage \cup {name} |-> IF n = name THEN {} ELSE storage[n]]

\* caches.delete(name)
CachesDelete(storage, name) == [n \in DOMAIN storage \ {name} |-> storage[n]]

\* A test of the activate handler that spares only CACHE_NAME;
\* ActivateKeepsNamedCaches tells it from the test of the source.
IsOldCacheButShell(cacheName) == cacheName # CACHE_NAME

\* cacheName !== CACHE_NAME && cacheName !== DATA_CACHE_NAME
IsOldCache(cacheName) == cacheName # CACHE_NAME /\ cacheName # DATA_CACHE_NAME

\* The branch of the first fetch listener that answers the request.
GeneralBranch(request) ==
    IF \E apiUrl \in API_CACHE_URLS : Includes(request.url, apiUrl) THEN "api"
    ELSE IF request.url \in FILES_TO_CACHE \/ request.destination = "document" THEN "shell"
    ELSE "other"

IsSharePost(request) == request.url = <<"share">> /\ request.method = "POST"
IsImportPost(request) == request.url = <<"import">> /\ request.method = "POST"

\* event.respondWith: the first call takes the event, a later call throws
\* InvalidStateError and leaves it with the first.
RespondWith(current, by) == IF current = "none" THEN by ELSE current

handleSharedData(request) ==
    [status |-> 303,
     location |-> [path |-> <<>>, share |-> TRUE,
                   params |-> request.form \cap {"title", "text", "url"}]]

handleFileImport(request) ==
    [status |-> 303, location |-> [path |-> <<>>, import |-> TRUE]]

\* An API branch that reads the cache first; ApiNetworkFirst tells it from
\* the branches of the source.
StageAfterOpenCacheFirst(branch) == "matching"

\* After caches.open the API branch fetches and the app shell branch looks
\* in the cache.
StageAfterOpen(branch) == IF branch = "api" THEN "fetching" ELSE "matching"

\* The storages the activate event can find: the two caches of this
\* version may exist, with or without entries, and so may older caches.
InitialStorages ==
    { [n \in names |->
          IF n = CACHE_NAME THEN {[url |-> <<>>, response |-> CachedResponse]}
          ELSE IF n = DATA_CACHE_NAME
          THEN {[url |-> <<"api", "statistics">>, response |-> CachedResponse]}
          ELSE {[url |-> <<"static", "js", "main.js">>, response |-> CachedResponse]}] :
        names \in SUBSET ({CACHE_NAME, DATA_CACHE_NAME} \cup OldCacheNames) }

WorkerInit ==
    /\ EngineIdle
    /\ HookUnmounted
    /\ NotificationsUnmounted
    /\ MetricsUnmounted
    /\ cacheStorage \in InitialStorages
    /\ activation = "installed"
    /\ cacheNames = {}
    /\ pendingDeletes = {}
    /\ event = NoEvent
    /\ dispatched = 0
    /\ respondWithCalls = 0
    /\ responder = "none"
    /\ stage = "idle"
    /\ networkResult = NotFetched
    /\ response = Pending

\* The activate listener up to the calls of caches.delete: caches.keys()
\* has resolved and every old cache has a deletion under way.
ActivateKeys ==
    /\ activation = "installed"
    /\ activation' = "deleting"
    /\ cacheNames' = DOMAIN cacheStorage
    /\ pendingDeletes' = {cacheName \in DOMAIN cacheStorage : IsOldCache(cacheName)}
    /\ UNCHANGED <<cacheStorage, fetchVars, beyondWorker>>

\* One caches.delete completes.
DeleteCache ==
    /\ activation = "deleting"
    /\ \E cacheName \in pendingDeletes :
           /\ cacheStorage' = CachesDelete(cacheStorage, cacheName)
           /\ pendingDeletes' = pendingDeletes \ {cacheName}
    /\ UNCHANGED <<activation, cacheNames, fetchVars, beyondWorker>>

\* Promise.all has resolved: the handler claims the clients and completes.
ClaimClients ==
    /\ activation = "deleting"
    /\ pendingDeletes = {}
    /\ activation' = "activated"
    /\ UNCHANGED <<cacheStorage, cacheNames, pendingDeletes, fetchVars, beyondWorker>>

\* A fetch event reaches the activated worker and the first listener
\* answers it from one of its three branches.
GeneralFetchListener ==
    /\ activation = "activated"
    /\ stage \in {"idle", "settled"}
    /\ \E request \in Requests :
           /\ event' = request
           /\ responder' = RespondWith("none", GeneralBranch(request))
    /\ dispatched' = 1
    /\ respondWithCalls' = 1
    /\ stage' = "listening"
    /\ networkResult' = NotFetched
    /\ response' = Pending
    /\ UNCHANGED <<cacheStorage, activationVars, beyondWorker>>

\* The second listener: share target handling.
ShareFetchListener ==
    /\ stage = "listening"
    /\ dispatched = 1
    /\ dispatched' = 2
    /\ IF IsSharePost(event)
       THEN /\ respondWithCalls' = respondWithCalls + 1
            /\ responder' = RespondWith(responder, "share")
            /\ response' = IF responder' = "share" THEN handleSharedData(event) ELSE response
       ELSE UNCHANGED <<respondWithCalls, responder, response>>
    /\ UNCHANGED <<event, stage, networkResult, cacheStorage, activationVars, beyondWorker>>

\* The third listener: file imports.  When it returns the promise of the
\* responder starts to run.
ImportFetchListener ==
    /\ stage = "listening"
    /\ dispatched = 2
    /\ dispatched' = 3
    /\ IF IsImportPost(event)
       THEN /\ respondWithCalls' = respondWithCalls + 1
            /\ responder' = RespondWith(responder, "import")
            /\ response' = IF responder' = "import" THEN handleFileImport(event) ELSE response
       ELSE UNCHANGED <<respondWithCalls, responder, response>>
    /\ stage' = IF responder' \in {"api", "shell"} THEN "opening"
                ELSE IF responder' = "other" THEN "fetching"
                ELSE "settled"
    /\ UNCHANGED <<event, networkResult, cacheStorage, activationVars, beyondWorker>>

\* caches.open of the API branch and of the app shell branch resolves.
OpenCache ==
    /\ stage = "opening"
    /\ cacheStorage' =
           CachesOpen(cacheStorage, IF responder = "api" THEN DATA_CACHE_NAME ELSE CACHE_NAME)
    /\ stage' = StageAfterOpen(responder)
    /\ UNCHANGED <<event, dispatched, respondWithCalls, responder, networkResult,
                   response, activationVars, beyondWorker>>

\* fetch(request) settles.  The API branch stores a response of status 200
\* under request.url and falls back to the cache on a failure; the app
\* shell branch stores a response of status 200 under the request, which
\* the cache refuses unless it is a GET; the last branch falls back to the
\* caches on a failure.
NetworkFetch ==
    /\ stage = "fetching"
    /\ \E result \in NetworkResults :
           /\ networkResult' = result
           /\ IF IsResponse(result)
              THEN /\ response' = result
                   /\ stage' = "settled"
                   /\ cacheStorage' =
                          IF result.status # 200 \/ responder = "other" THEN cacheStorage
                          ELSE IF responder = "api"
                          THEN [cacheStorage EXCEPT ![DATA_CACHE_NAME] =
                                    CachePut(@, event.url, result)]
                          ELSE IF event.method = "GET"
                          THEN [cacheStorage EXCEPT ![CACHE_NAME] =
                                    CachePut(@, event.url, result)]
                          ELSE cacheStorage
              ELSE /\ response' = IF responder = "shell" THEN NetworkError ELSE response
                   /\ stage' = IF responder = "shell" THEN "settled" ELSE "matching"
                   /\ UNCHANGED cacheStorage
    /\ UNCHANGED <<event, dispatched, respondWithCalls, responder,
                   activationVars, beyondWorker>>

\* cache.match or caches.match resolves.  The app shell branch goes to the
\* network when the cache has no entry.
ReadCache ==
    /\ stage = "matching"
    /\ IF responder = "api"
       THEN /\ response' = CacheMatch(cacheStorage[DATA_CACHE_NAME], event)
            /\ stage' = "settled"
       ELSE IF responder = "shell"
       THEN IF CacheMatch(cacheStorage[CACHE_NAME], event) # Undefined
            THEN /\ response' = CacheMatch(cacheStorage[CACHE_NAME], event)
                 /\ stage' = "settled"
            ELSE /\ stage' = "fetching"
                 /\ UNCHANGED response
       ELSE /\ response' = CachesMatch(cacheStorage, event)
            /\ stage' = "settled"
    /\ UNCHANGED <<event, dispatched, respondWithCalls, responder, networkResult,
                   cacheStorage, activationVars, beyondWorker>>

WorkerNext ==
    \/ ActivateKeys
    \/ DeleteCache
    \/ ClaimClients
    \/ GeneralFetchListener
    \/ ShareFetchListener
    \/ ImportFetchListener
    \/ OpenCache
    \/ NetworkFetch
    \/ ReadCache

WorkerSpec == WorkerInit /\ [][WorkerNext]_vars

----------------------------------------------------------------------------
(* MLPredictor.generatePredictions and useABTesting.generateMLPredictions  *)
(*                                                                         *)
(* pending holds the calls of generateMLPredictions that await the         *)
(* predictor: each with the testConfig its closure has captured.  The      *)
(* three lists of texts of MLPredictions (insights, riskFactors,           *)
(* recommendations) are left out of the predictions.                       *)

\* The number of generateMLPredictions calls followed.
MaxCalls == 2

calculateEffectSizeScore(mde) ==
    IF FGe(mde, Num(20)) THEN F(95, -2)
    ELSE IF FGe(mde, Num(15)) THEN F(85, -2)
    ELSE IF FGe(mde, Num(10)) THEN F(75, -2)
    ELSE IF FGe(mde, Num(5)) THEN F(60, -2)
    ELSE IF FGe(mde, Num(2)) THEN F(40, -2)
    ELSE F(20, -2)

calculateSampleSizeScore(dailyTraffic, testDuration) ==
    LET totalSample == FMul(dailyTraffic, testDuration)
    IN IF FGe(totalSample, Num(100000)) THEN F(95, -2)
       ELSE IF FGe(totalSample, Num(50000)) THEN F(85, -2)
       ELSE IF FGe(totalSample, Num(20000)) THEN F(75, -2)
       ELSE IF FGe(totalSample, Num(10000)) THEN F(65, -2)
       ELSE IF FGe(totalSample, Num(5000)) THEN F(50, -2)
       ELSE IF FGe(totalSample, Num(1000)) THEN F(35, -2)
       ELSE F(15, -2)

getIndustryScore(industry) ==
    LET industryScores == [ecommerce |-> F(80, -2), saas |-> F(75, -2), media |-> F(70, -2),
                           finance |-> F(65, -2), education |-> F(60, -2), other |-> F(55, -2)]
    IN IF industry \in DOMAIN industryScores THEN industryScores[industry] ELSE F(55, -2)

getTestTypeScore(testType) ==
    LET testTypeScores == [conversion |-> F(85, -2), revenue |-> F(75, -2),
                           engagement |-> F(65, -2), retention |-> F(55, -2)]
    IN IF testType \in DOMAIN testTypeScores THEN testTypeScores[testType] ELSE F(60, -2)

calculateStatisticalRigor(alpha, power) ==
    LET alphaPart == IF FLe(alpha, F(1, -2)) THEN F(5, -1)
                     ELSE IF FLe(alpha, F(5, -2)) THEN F(4, -1)
                     ELSE F(2, -1)
        powerPart == IF FGe(power, F(9, -1)) THEN F(5, -1)
                     ELSE IF FGe(power, F(8, -1)) THEN F(4, -1)
                     ELSE F(2, -1)
    IN FAdd(FAdd(Zero, alphaPart), powerPart)

predictExpectedLift(baselineRate, mde, industryScore, probabilityOfSuccess) ==
    LET baseExpectation == FMul(mde, F(7, -1))
        industryAdjustment == FMul(baseExpectation, FSub(industryScore, F(5, -1)))
        confidenceAdjustment ==
            FMul(FMul(baseExpectation, FSub(probabilityOfSuccess, F(5, -1))), F(5, -1))
    IN MathMax(Zero, FAdd(FAdd(baseExpectation, industryAdjustment), confidenceAdjustment))

calculateConfidenceScore(probabilityOfSuccess, sampleSizeScore, statisticalRigorScore) ==
    MathMin(F(99, -2),
            FAdd(FAdd(FMul(probabilityOfSuccess, F(4, -1)), FMul(sampleSizeScore, F(3, -1))),
                 FMul(statisticalRigorScore, F(3, -1))))

\* The weighted probability, clamped to [0.05, 0.98].
ProbabilityOfSuccess(effectSizeScore, sampleSizeScore, industryScore, testTypeScore, rigorScore) ==
    MathMin(F(98, -2), MathMax(F(5, -2),
        FAdd(FAdd(FAdd(FAdd(FMul(effectSizeScore, F(25, -2)),
                            FMul(sampleSizeScore, F(20, -2))),
                       FMul(industryScore, F(15, -2))),
                  FMul(testTypeScore, F(15, -2))),
             FMul(rigorScore, F(25, -2)))))

\* What the promise of generatePredictions resolves to.
generatePredictions(config) ==
    LET sampleSizeScore == calculateSampleSizeScore(config.dailyTraffic, config.testDuration)
        industryScore == getIndustryScore(config.industry)
        rigorScore == calculateStatisticalRigor(config.alpha, config.power)
        probabilityOfSuccess ==
            ProbabilityOfSuccess(calculateEffectSizeScore(config.minimumDetectableEffect),
                                 sampleSizeScore, industryScore,
                                 getTestTypeScore(config.testType), rigorScore)
    IN [probabilityOfSuccess |-> probabilityOfSuccess,
        expectedLift |-> predictExpectedLift(config.baselineRate,
                                             config.minimumDetectableEffect,
                                             industryScore, probabilityOfSuccess),
        confidenceScore |-> calculateConfidenceScore(probabilityOfSuccess,
                                                     sampleSizeScore, rigorScore)]

predictionsFor == [config \in HookConfigs |-> generatePredictions(config)]

\* generateMLPredictions up to its await: the call is in flight with the
\* testConfig of the render that made the callback.
generateMLPredictions ==
    /\ started < MaxCalls
    /\ isLoading' = TRUE
    /\ error' = Null
    /\ started' = started + 1
    /\ pending' = pending \cup
           {[id |-> started + 1, config |-> testConfig, sinceReset |-> TRUE]}
    /\ UNCHANGED <<beyondComponent, testConfig, testData, mlPredictions,
                   requiredSampleSize, statisticalResults, bayesianResults, roiAnalysis>>

\* The timer of generatePredictions has fired and the promise of one call
\* resolves: the rest of its generateMLPredictions runs.
PredictionsResolved ==
    \E request \in pending :
        /\ mlPredictions' = predictionsFor[request.config]
        /\ isLoading' = FALSE
        /\ pending' = pending \ {request}
        /\ UNCHANGED <<beyondComponent, started, testConfig, testData, error,
                       requiredSampleSize, statisticalResults, bayesianResults, roiAnalysis>>

PredictionNext ==
    \/ generateMLPredictions
    \/ PredictionsResolved
    \/ updateTestConfig
    \/ resetToDefaults

PredictionSpec == HookInit /\ [][PredictionNext]_vars

----------------------------------------------------------------------------
(* Properties                                                              *)

\* The direct call of op has returned or thrown.
Returned(op) == call.op = op /\ ret # NotReturned

EmptyArm(data) == data.controlTotal = 0 \/ data.treatmentTotal = 0

Overcounted(data) ==
    \/ data.controlConversions > data.controlTotal
    \/ data.treatmentConversions > data.treatmentTotal

\* 0 < x < 1
InUnitInterval(x) == FLt(Zero, x) /\ FLt(x, Num(1))

NotANumber(x) == IsNaN(x) \/ IsInf(x)

\* C1: performZTest throws, and returns no StatisticalResults, whenever
\* controlTotal = 0 or treatmentTotal = 0, whatever the conversion counts.
ZTestRejectsEmptyArm ==
    (Returned("performZTest") /\ EmptyArm(call.data)) => IsThrow(ret)

\* A reachable case of C1: a call with 5 conversions of 0 visitors in the control arm
\* and a populated treatment arm has thrown.
ZTestRejectsEmptyArmWitness ==
    /\ Returned("performZTest")
    /\ call.data.controlConversions = 5
    /\ call.data.controlTotal = 0
    /\ call.data.treatmentTotal = 10
    /\ ret = Throw("Sample sizes must be greater than 0")

\* C2: performBayesianAnalysis throws, instead of returning BayesianResults,
\* whenever controlTotal = 0 or treatmentTotal = 0.
BayesianRejectsEmptyArm ==
    (Returned("performBayesianAnalysis") /\ EmptyArm(call.data)) => IsThrow(ret)

\* C3: when conversions exceed the total in an arm, the hook exposes
\* statisticalResults, bayesianResults and roiAnalysis as null.
HookRejectsOvercountedData ==
    Overcounted(testData) =>
        /\ statisticalResults = Null
        /\ bayesianResults = Null
        /\ roiAnalysis = Null

\* C4: isSignificant equals pValue < alpha for the alpha of the caller's
\* TestConfiguration.
SignificanceUsesConfiguredAlpha ==
    (statisticalResults # Null /\ InUnitInterval(testConfig.alpha)) =>
        (statisticalResults.isSignificant
            <=> FLt(statisticalResults.pValue, testConfig.alpha))

\* C5: when additionalRevenue <= 0 the paybackPeriod calculateROI returns is
\* an explicit marker, never the number Infinity or NaN.
PaybackNeverInfinite ==
    (Returned("calculateROI") /\ IsOk(ret) /\ FLe(ret.val.additionalRevenue, Zero)) =>
        ~NotANumber(ret.val.paybackPeriod)

\* C6: calculateROI throws when costPerVisitor < 0, revenuePerConversion < 0
\* or testDuration <= 0.
ROIRejectsInvalidParameters ==
    (/\ Returned("calculateROI")
     /\ \/ FLt(call.config.costPerVisitor, Zero)
        \/ FLt(call.config.revenuePerConversion, Zero)
        \/ FLe(call.config.testDuration, Zero)) => IsThrow(ret)

\* C7: calculateSampleSize throws for every configuration whose alpha or
\* power is outside the open interval (0, 1).
SampleSizeRejectsAlphaPowerOutsideUnit ==
    (/\ Returned("calculateSampleSize")
     /\ \/ ~InUnitInterval(call.config.alpha)
        \/ ~InUnitInterval(call.config.power)) => IsThrow(ret)

\* C8: calculateSampleSize throws when p2 = p1, that is when
\* minimumDetectableEffect = 0 or baselineRate = 0 (alpha and power valid).
SampleSizeRejectsZeroEffect ==
    (/\ Returned("calculateSampleSize")
     /\ InUnitInterval(call.config.alpha)
     /\ InUnitInterval(call.config.power)
     /\ \/ FEq(call.config.minimumDetectableEffect, Zero)
        \/ FEq(call.config.baselineRate, Zero)) => IsThrow(ret)

\* C9: calculateROI returns roi = (netPresentValue / totalCost) * 100 when
\* totalCost != 0 and roi = 0 when totalCost = 0, which is the case for
\* costPerVisitor = 0.
RoiGuardsZeroCost ==
    Returned("calculateROI") =>
        /\ IsOk(ret)
        /\ FNe(ret.val.totalCost, Zero) =>
              ret.val.roi = FMul(FDiv(ret.val.netPresentValue, ret.val.totalCost), Num(100))
        /\ FEq(ret.val.totalCost, Zero) => ret.val.roi = Zero
        /\ (FEq(call.config.costPerVisitor, Zero) /\ IsFinite(call.config.testDuration)) =>
              (ret.val.totalCost = Zero /\ ret.val.roi = Zero)

\* A reachable case of C9: a call with costPerVisitor = 0 has returned totalCost = 0,
\* a nonzero netPresentValue and roi = 0.
RoiGuardsZeroCostWitness ==
    /\ Returned("calculateROI")
    /\ call.config.costPerVisitor = Zero
    /\ ret.val.totalCost = Zero
    /\ FGt(ret.val.netPresentValue, Zero)
    /\ ret.val.roi = Zero

\* C10: with controlConversions = 0 and controlTotal > 0 performZTest
\* returns lift = 0 and the confidence interval [0, 0]; with a nonzero
\* control rate lift = (p2 - p1) / p1 * 100.
LiftGuardsZeroControlRate ==
    (Returned("performZTest") /\ IsOk(ret)) =>
        IF call.data.controlConversions = 0
        THEN /\ ret.val.controlRate = Zero
             /\ ret.val.lift = Zero
             /\ ret.val.confidenceInterval = <<Zero, Zero>>
        ELSE /\ FNe(ret.val.controlRate, Zero)
             /\ ret.val.lift =
                    FMul(FDiv(FSub(ret.val.treatmentRate, ret.val.controlRate),
                              ret.val.controlRate), Num(100))

\* A reachable case of C10: 0 of 10 against 5 of 10 has returned a treatment rate of 0.5
\* with lift 0 and interval [0, 0].
LiftGuardsZeroControlRateWitness ==
    /\ Returned("performZTest")
    /\ call.data.controlConversions = 0
    /\ call.data.controlTotal = 10
    /\ IsOk(ret)
    /\ ret.val.treatmentRate = F(5, -1)
    /\ ret.val.lift = Zero
    /\ ret.val.confidenceInterval = <<Zero, Zero>>

\* C11: when the pooled standard error is 0, performZTest throws or returns
\* zScore = 0, and neither zScore nor pValue is NaN or Infinity.
ZTestGuardsZeroStandardError ==
    (Returned("performZTest") /\ IsOk(ret) /\ FEq(ret.val.standardError, Zero)) =>
        /\ ret.val.zScore = Zero
        /\ ~NotANumber(ret.val.pValue)

\* C12: normalInverse(p) throws for every p <= 0 and every p >= 1; for p in
\* (0, 1) it returns a value after at most one reflective call, the one from
\* p > 0.5 to 1 - p.
NormalInverseRejectsOutsideUnit ==
    call.op = "normalInverse" =>
        /\ Len(entered) <= 2
        /\ ret # NotReturned =>
              /\ ret = normalInverse(call.p)
              /\ (FLe(call.p, Zero) \/ FGe(call.p, Num(1))) =>
                    (IsThrow(ret) /\ entered = <<call.p>>)
              /\ InUnitInterval(call.p) =>
                    /\ IsOk(ret)
                    /\ entered = IF FGt(call.p, F(5, -1))
                                 THEN <<call.p, FSub(Num(1), call.p)>>
                                 ELSE <<call.p>>

\* A reachable case of C12: normalInverse(0.975) has returned a negative
\* number after the one reflective call normalInverse(0.025).
NormalInverseRejectsOutsideUnitWitness ==
    /\ call.op = "normalInverse"
    /\ call.p = F(975, -3)
    /\ entered = <<F(975, -3), F(25, -3)>>
    /\ IsOk(ret)
    /\ FLt(ret.val, Zero)

\* C13: performBayesianAnalysis returns posteriorA = (1 + controlConversions,
\* 1 + controlTotal - controlConversions) and posteriorB likewise for the
\* treatment arm; with 0 <= conversions <= total in both arms all four
\* parameters are >= 1.
PosteriorParametersPositive ==
    (Returned("performBayesianAnalysis") /\ IsOk(ret)) =>
        /\ ret.val.posteriorA.alpha = 1 + call.data.controlConversions
        /\ ret.val.posteriorA.beta =
              1 + call.data.controlTotal - call.data.controlConversions
        /\ ret.val.posteriorB.alpha = 1 + call.data.treatmentConversions
        /\ ret.val.posteriorB.beta =
              1 + call.data.treatmentTotal - call.data.treatmentConversions
        /\ (~Overcounted(call.data)
              /\ call.data.controlConversions >= 0
              /\ call.data.treatmentConversions >= 0) =>
              /\ ret.val.posteriorA.alpha >= 1
              /\ ret.val.posteriorA.beta >= 1
              /\ ret.val.posteriorB.alpha >= 1
              /\ ret.val.posteriorB.beta >= 1

\* A reachable case of C13: 10 of 10 against 5 of 10 has returned the
\* posteriors Beta(11, 1) and Beta(6, 6).
PosteriorParametersPositiveWitness ==
    /\ Returned("performBayesianAnalysis")
    /\ IsOk(ret)
    /\ call.data = TestDataOf(<<10, 10>>, <<5, 10>>)
    /\ ret.val.posteriorA = [alpha |-> 11, beta |-> 1]
    /\ ret.val.posteriorB = [alpha |-> 6, beta |-> 6]

\* C14: probabilityBWins is the number of draws with sampleB > sampleA
\* divided by the number of draws; after i iterations 0 <= bWinsCount <= i,
\* and the returned probabilityBWins is in [0, 1] for every stream of draws.
ProbabilityBWinsIsWinShare ==
    (Returned("performBayesianAnalysis") /\ IsOk(ret)) =>
        /\ ret.val.probabilityBWins =
              FDiv(Num(Cardinality({i \in 1..Simulations :
                                       FGt(SampleOf(ret.val.posteriorB, call.stream[i], 3),
                                           SampleOf(ret.val.posteriorA, call.stream[i], 1))})),
                   Num(Simulations))
        /\ FLe(Zero, ret.val.probabilityBWins)
        /\ FLe(ret.val.probabilityBWins, Num(1))
        /\ \A i \in 0..Simulations :
              /\ 0 <= SimulationLoop(ret.val.posteriorA, ret.val.posteriorB, call.stream, i)[1]
              /\ SimulationLoop(ret.val.posteriorA, ret.val.posteriorB, call.stream, i)[1] <= i

\* A reachable case of C14: a call whose draws gave B the greater sample in
\* some iterations and not in others has returned a probability strictly
\* between 0 and 1.
ProbabilityBWinsIsWinShareWitness ==
    /\ Returned("performBayesianAnalysis")
    /\ IsOk(ret)
    /\ \E i, j \in 1..Simulations :
          /\ FGt(SampleOf(ret.val.posteriorB, call.stream[i], 3),
                 SampleOf(ret.val.posteriorA, call.stream[i], 1))
          /\ ~FGt(SampleOf(ret.val.posteriorB, call.stream[j], 3),
                  SampleOf(ret.val.posteriorA, call.stream[j], 1))
    /\ FLt(Zero, ret.val.probabilityBWins)
    /\ FLt(ret.val.probabilityBWins, Num(1))

\* v is the element at zero-based index k of the ascending order of samples.
IsOrderStatistic(v, samples, k) ==
    /\ \E i \in DOMAIN samples : samples[i] = v
    /\ Cardinality({i \in DOMAIN samples : FLt(samples[i], v)}) <= k
    /\ Cardinality({i \in DOMAIN samples : FLe(samples[i], v)}) >= k + 1

ValidData(data) ==
    /\ data.controlTotal > 0
    /\ data.treatmentTotal > 0
    /\ data.controlConversions >= 0
    /\ data.treatmentConversions >= 0
    /\ ~Overcounted(data)

\* C16: for valid TestData the confidenceInterval performZTest returns is an
\* ordered pair, confidenceInterval[0] <= confidenceInterval[1].
ConfidenceIntervalOrdered ==
    (Returned("performZTest") /\ ValidData(call.data)) =>
        /\ IsOk(ret)
        /\ FLe(ret.val.confidenceInterval[1], ret.val.confidenceInterval[2])

\* A reachable case of C16: 50 of 1000 against 65 of 1000 has returned an
\* interval with a negative lower and a positive upper bound.
ConfidenceIntervalOrderedWitness ==
    /\ Returned("performZTest")
    /\ call.data = TestDataOf(<<50, 1000>>, <<65, 1000>>)
    /\ IsOk(ret)
    /\ FLt(ret.val.confidenceInterval[1], Zero)
    /\ FGt(ret.val.confidenceInterval[2], Zero)

TwoProportionSampleSize(zAlpha, zBeta, p1, p2, pbar) ==
    FCeil(FDiv(Square(FAdd(FMul(zAlpha,
                                FSqrt(FMul(FMul(Num(2), pbar), FSub(Num(1), pbar)))),
                           FMul(zBeta,
                                FSqrt(FAdd(FMul(p1, FSub(Num(1), p1)),
                                           FMul(p2, FSub(Num(1), p2))))))),
               Square(FSub(p2, p1))))

\* C18: calculateSampleSize returns the two-proportion formula above with
\* p1 = baselineRate / 100, p2 = p1 (1 + minimumDetectableEffect / 100),
\* pbar = (p1 + p2) / 2, zAlpha = normalInverse(1 - alpha / 2) and
\* zBeta = normalInverse(power).
SampleSizeIsTwoProportionFormula ==
    (Returned("calculateSampleSize") /\ IsOk(ret)) =>
        ret.val =
            TwoProportionSampleSize(
                normalInverse(FSub(Num(1), FDiv(call.config.alpha, Num(2)))).val,
                normalInverse(call.config.power).val,
                BaselineP(call.config), TargetP(call.config),
                FDiv(FAdd(BaselineP(call.config), TargetP(call.config)), Num(2)))

\* A TestConfiguration within its documented ranges: 0 < baselineRate < 100,
\* minimumDetectableEffect > 0, 0 < alpha < 1, 0 < power < 1.
ValidConfig(config) ==
    /\ FLt(Zero, config.baselineRate)
    /\ FLt(config.baselineRate, Num(100))
    /\ FGt(config.minimumDetectableEffect, Zero)
    /\ InUnitInterval(config.alpha)
    /\ InUnitInterval(config.power)

\* other is config with a smaller minimumDetectableEffect and nothing else
\* changed.
SmallerEffect(other, config) ==
    /\ other = [config EXCEPT !.minimumDetectableEffect = other.minimumDetectableEffect]
    /\ FLt(other.minimumDetectableEffect, config.minimumDetectableEffect)

\* other is config with a smaller power and nothing else changed.
SmallerPower(other, config) ==
    /\ other = [config EXCEPT !.power = other.power]
    /\ FLt(other.power, config.power)

Swapped(data) ==
    TestDataOf(<<data.treatmentConversions, data.treatmentTotal>>,
               <<data.controlConversions, data.controlTotal>>)

\* The results for the exchanged arms mirror results: the same
\* standardError, pValue and isSignificant, zScore and lift of opposite sign.
Mirrors(results, exchanged) ==
    /\ exchanged.standardError = results.standardError
    /\ exchanged.pValue = results.pValue
    /\ exchanged.isSignificant = results.isSignificant
    /\ exchanged.zScore = FNeg(results.zScore)
    /\ FSign(exchanged.lift) = -FSign(results.lift)

HookDerivedValuesCurrent ==
    /\ statisticalResults =
          IF EmptyArm(testData) THEN Null ELSE performZTest(testData).val
    /\ (roiAnalysis = Null) <=> (statisticalResults = Null)
    /\ statisticalResults # Null =>
          roiAnalysis = calculateROI(testData, testConfig, statisticalResults).val

\* A reachable case of C21: after updates of both inputs the hook holds
\* results for 50 control conversions of 1000 and a cost of 0 per visitor.
HookDerivedValuesCurrentWitness ==
    /\ testData # Unmounted
    /\ testData.controlConversions = 50
    /\ testData.controlTotal = 1000
    /\ testConfig.costPerVisitor = Zero
    /\ statisticalResults # Null
    /\ statisticalResults.controlRate = F(5, -2)
    /\ roiAnalysis # Null
    /\ roiAnalysis.totalCost = Zero

\* C22: performZTest finds 50 of 1000 against 65 of 1000 not significant,
\* with |z| below 1.96, and 1247 of 12500 against 1398 of 12500 significant
\* with a positive lift.
ReferenceDataClassified ==
    (Returned("performZTest") /\ IsOk(ret)) =>
        /\ call.data = TestDataOf(<<50, 1000>>, <<65, 1000>>) =>
              /\ ~ret.val.isSignificant
              /\ FLt(FAbs(ret.val.zScore), F(196, -2))
        /\ call.data = DefaultData =>
              /\ ret.val.isSignificant
              /\ FGt(ret.val.lift, Zero)

\* A reachable case of C22: the call for 1247 of 12500 against 1398 of
\* 12500 has returned a significant result with z above 1.96.
ReferenceDataClassifiedWitness ==
    /\ Returned("performZTest")
    /\ call.data = DefaultData
    /\ IsOk(ret)
    /\ ret.val.isSignificant
    /\ FGt(ret.val.zScore, F(196, -2))
    /\ FLt(ret.val.pValue, F(5, -2))

\* C30: for valid TestData the requiredSampleSize performZTest returns is a
\* finite non-negative integer, also when both arms have the same rate.
RequiredSampleSizeFinite ==
    (Returned("performZTest") /\ ValidData(call.data)) =>
        /\ IsOk(ret)
        /\ IsFinite(ret.val.requiredSampleSize)
        /\ FGe(ret.val.requiredSampleSize, Zero)
        /\ FCeil(ret.val.requiredSampleSize) = ret.val.requiredSampleSize

\* C23: the list of useNotifications never holds more than 10
\* notifications, and a step that adds one puts it first and keeps the 9
\* most recent earlier ones in their order, dropping the oldest.
NotificationsCapped ==
    /\ [](Len(notifications) <= 10)
    /\ [][(Len(notifications') >= Len(notifications) /\ notifications' # notifications) =>
            /\ Head(notifications').id = now'
            /\ Tail(notifications') =
                  SubSeq(notifications, 1,
                         IF Len(notifications) < 9 THEN Len(notifications) ELSE 9)]_vars

\* A reachable case of C23: the list is full, the initial notifications 1
\* and 2 are its last two entries and the oldest, 3, has been dropped.
NotificationsCappedWitness ==
    /\ Len(notifications) = 10
    /\ notifications[9].id = 1
    /\ notifications[10].id = 2

\* C27: in useRealTimeMetrics activeVisitors is never negative,
\* avgConversion stays between 8 and 18, totalRevenue never decreases from
\* one state to the next, and the metrics do not change in a step taken
\* while isEnabled is false.
MetricsInRange ==
    /\ [](/\ FGe(metrics.activeVisitors, Zero)
          /\ FGe(metrics.avgConversion, Num(8))
          /\ FLe(metrics.avgConversion, Num(18)))
    /\ [][/\ FGe(metrics'.totalRevenue, metrics.totalRevenue)
          /\ ~isEnabled => metrics' = metrics]_vars

\* A reachable case of C27: after two ticks the visitors are clamped at 0
\* and the conversion at 8, and the hook has been disabled.
MetricsInRangeWitness ==
    /\ metrics.lastUpdate = MaxTicks
    /\ metrics.activeVisitors = Zero
    /\ metrics.avgConversion = Num(8)
    /\ FGt(metrics.totalRevenue, Num(47320))
    /\ ~isEnabled

\* The entries of the data cache, none when the cache does not exist.
DataEntries(storage) ==
    IF DATA_CACHE_NAME \in DOMAIN storage THEN storage[DATA_CACHE_NAME] ELSE {}

\* The cache of this name is the same, or as absent, in both storages.
SameCache(name, before, after) ==
    /\ name \in DOMAIN before <=> name \in DOMAIN after
    /\ name \in DOMAIN before => after[name] = before[name]

\* C24: when the activate handler has completed no cache with a name other
\* than CACHE_NAME and DATA_CACHE_NAME exists, and no step of the handler
\* creates, deletes or changes the caches of these two names.
ActivateKeepsNamedCaches ==
    /\ [](activation = "activated" =>
            /\ DOMAIN cacheStorage \subseteq {CACHE_NAME, DATA_CACHE_NAME}
            /\ \A cacheName \in cacheNames \ {CACHE_NAME, DATA_CACHE_NAME} :
                   cacheName \notin DOMAIN cacheStorage)
    /\ [][activation # "activated" =>
            /\ SameCache(CACHE_NAME, cacheStorage, cacheStorage')
            /\ SameCache(DATA_CACHE_NAME, cacheStorage, cacheStorage')]_vars

\* A reachable case of C24: the handler found the two caches of this
\* version and two older ones, and has completed with the older ones
\* deleted and the entries of the two others in place.
ActivateKeepsNamedCachesWitness ==
    /\ activation = "activated"
    /\ stage = "idle"
    /\ cacheNames = {CACHE_NAME, DATA_CACHE_NAME} \cup OldCacheNames
    /\ DOMAIN cacheStorage = {CACHE_NAME, DATA_CACHE_NAME}
    /\ cacheStorage[CACHE_NAME] = {[url |-> <<>>, response |-> CachedResponse]}
    /\ cacheStorage[DATA_CACHE_NAME] =
           {[url |-> <<"api", "statistics">>, response |-> CachedResponse]}

\* C25: for an API request the data cache is read only after fetch has
\* failed, the entries of the data cache change only by storing a network
\* response of status 200, and a network response of another status is
\* returned to the page with the cache as it was.
ApiNetworkFirst ==
    /\ [](responder = "api" =>
            /\ stage = "matching" => networkResult = NetworkFailed
            /\ (stage = "settled" /\ networkResult # NetworkFailed) =>
                   response = networkResult)
    /\ [][responder' = "api" =>
            /\ DataEntries(cacheStorage') # DataEntries(cacheStorage) =>
                   /\ IsResponse(networkResult')
                   /\ networkResult'.status = 200
                   /\ [url |-> event.url, response |-> networkResult']
                          \in DataEntries(cacheStorage')
            /\ (networkResult = NotFetched /\ IsResponse(networkResult')
                   /\ networkResult'.status # 200) =>
                   /\ response' = networkResult'
                   /\ cacheStorage' = cacheStorage]_vars

\* A reachable case of C25: the network answered an API request with 404,
\* the page got that response and the cached entry of the URL is still the
\* earlier one.
ApiNetworkFirstWitness ==
    /\ responder = "api"
    /\ stage = "settled"
    /\ IsResponse(networkResult)
    /\ networkResult.status = 404
    /\ response = networkResult
    /\ event.url = <<"api", "statistics">>
    /\ [url |-> <<"api", "statistics">>, response |-> CachedResponse]
           \in cacheStorage[DATA_CACHE_NAME]

\* C26: respondWith is called at most once for a fetch event, a POST to
\* /share is answered by the redirect of handleSharedData and a POST to
\* /import by the redirect of handleFileImport.
PostsAnsweredByTheirHandlers ==
    /\ respondWithCalls <= 1
    /\ stage = "settled" =>
           /\ IsSharePost(event) => response = handleSharedData(event)
           /\ IsImportPost(event) => response = handleFileImport(event)

\* C28: isLoading is true exactly while a generateMLPredictions call is
\* pending.
LoadingWhilePending == isLoading <=> pending # {}

\* C29: mlPredictions leaves null only when a call completes that was
\* started after the latest resetToDefaults.
NoStalePredictions ==
    [][(mlPredictions = Null /\ mlPredictions' # Null) =>
          \E request \in pending \ pending' : request.sinceReset]_vars

====
